---- MODULE Spec2Model ----
(***************************************************************************)
(* Staged fine-tuning driver of                                            *)
(* examples/vision/ipynb/image_classification_efficientnet_fine_tuning     *)
(* The notebook cells run top to bottom: strategy selection, dataset       *)
(* preparation, training from scratch, build_model + head training         *)
(* (phase 2), unfreeze_model + fine tuning (phase 3).                      *)
(*                                                                         *)
(* Fixed point: learning rates are integers in units of 1e-7, losses in    *)
(* units of 1e-4 (the callback's default min_delta), accuracies in percent.*)
(***************************************************************************)
EXTENDS Integers, Sequences, FiniteSets, TLC

(* ------------------------------ bounds --------------------------------- *)
\* epochs passed to fit in the end-to-end driver (the slider value)
MaxEpochs == 2
\* cap on the epochs of a fit in the learning-rate specifications
MaxFitEpochs == 16
\* how often the last cell (unfreeze + fine tuning) is run again
MaxReruns == 1
\* dataset sizes and batch sizes of the batching specification
MaxN == 9
MaxB == 4
\* class counts build_model is applied to besides NUM_CLASSES
MaxClasses == 3

(* ------------------------- program constants --------------------------- *)
batch_size == 64
NUM_CLASSES == 100
TrainSize == 50000
TestSize == 10000
TruncTrainSize == 5000
TruncTestSize == 1000
ScratchClasses == 100
HeadUnits == 100
ScratchEpochs == 20
Phase2Epochs == 25
Phase3Epochs == 25
\* learning rates, unit 1e-7
ScratchLr == 2000000
ScratchMinLr == 50000
BuildLr == 2000000
Phase2MinLr == 1000
UnfreezeLr == 50000
Phase3MinLr == 100
\* ReduceLROnPlateau(factor=0.2, patience=5), min_delta default 1e-4
FactorNum == 2
FactorDen == 10
Patience == 5
MinDelta == 1
\* np.Inf, the initial `best` of a monitor in "min" mode
MonitorInf == 1000000000
\* SGD(momentum=0.1), in percent
Momentum == 10

Min(a, b) == IF a < b THEN a ELSE b
Max(a, b) == IF a > b THEN a ELSE b

(* --------------------------- layer names ------------------------------- *)
\* names are character sequences, so that `"bn" in l.name` is a substring test
U == <<"_">>
W_bn == <<"b", "n">>
W_conv == <<"c", "o", "n", "v">>
W_dwconv == <<"d", "w">> \o W_conv
W_project == <<"p", "r", "o", "j", "e", "c", "t">>
W_expand == <<"e", "x", "p", "a", "n", "d">>
W_activation == <<"a", "c", "t", "i", "v", "a", "t", "i", "o", "n">>
W_add == <<"a", "d", "d">>
W_stem == <<"s", "t", "e", "m">>
W_top == <<"t", "o", "p">>
W_block == <<"b", "l", "o", "c", "k">>
W_input == <<"i", "n", "p", "u", "t">>
W_random == <<"r", "a", "n", "d", "o", "m">>
W_flip == <<"f", "l", "i", "p">>
W_contrast == <<"c", "o", "n", "t", "r", "a", "s", "t">>
W_resizing == <<"r", "e", "s", "i", "z", "i", "n", "g">>
W_rescaling == <<"r", "e", "s", "c", "a", "l", "i", "n", "g">>
W_normalization == <<"n", "o", "r", "m", "a", "l", "i", "z", "a", "t", "i", "o", "n">>
W_batch == <<"b", "a", "t", "c", "h">>
W_avg == <<"a", "v", "g">>
W_pool == <<"p", "o", "o", "l">>
W_dropout == <<"d", "r", "o", "p", "o", "u", "t">>
W_pred == <<"p", "r", "e", "d">>
W_efficientnetb0 == <<"e", "f", "f", "i", "c", "i", "e", "n", "t", "n", "e", "t", "b", "0">>

B1a == W_block \o <<"1", "a">>
B2a == W_block \o <<"2", "a">>
B2b == W_block \o <<"2", "b">>

\* keras.Model(inputs, x) of the from-scratch cell: the preprocessing layers
\* and EfficientNetB0 as one nested layer
ScratchNames ==
  << W_input \o U \o <<"1">>,
     W_random \o U \o W_flip,
     W_random \o U \o W_contrast,
     W_resizing,
     W_efficientnetb0 >>

\* layers of EfficientNetB0(include_top=False, input_tensor=x): the model is
\* built from the source input of x, so it holds the preprocessing layers too
BackboneNames ==
  << W_input \o U \o <<"3">>,
     W_random \o U \o W_flip \o U \o <<"1">>,
     W_random \o U \o W_contrast \o U \o <<"1">>,
     W_resizing \o U \o <<"1">>,
     W_rescaling \o U \o <<"1">>,
     W_normalization \o U \o <<"1">>,
     W_stem \o U \o W_conv,
     W_stem \o U \o W_bn,
     W_stem \o U \o W_activation,
     B1a \o U \o W_dwconv,
     B1a \o U \o W_bn,
     B1a \o U \o W_project \o U \o W_conv,
     B1a \o U \o W_project \o U \o W_bn,
     B2a \o U \o W_expand \o U \o W_conv,
     B2a \o U \o W_expand \o U \o W_bn,
     B2a \o U \o W_dwconv,
     B2a \o U \o W_bn,
     B2a \o U \o W_project \o U \o W_bn,
     B2b \o U \o W_expand \o U \o W_conv,
     B2b \o U \o W_project \o U \o W_bn,
     B2b \o U \o W_add,
     W_top \o U \o W_conv,
     W_top \o U \o W_bn,
     W_top \o U \o W_activation >>

\* the rebuilt top; BatchNormalization() gets the framework's default name
HeadNames ==
  << W_avg \o U \o W_pool,
     W_batch \o U \o W_normalization,
     W_top \o U \o W_dropout,
     W_pred >>

\* sub in name
Contains(name, sub) ==
  \E i \in 1..(Len(name) - Len(sub) + 1) : SubSeq(name, i, i + Len(sub) - 1) = sub

\* the test of unfreeze_model: "bn" in l.name
IsBnName(name) == Contains(name, W_bn)

\* the architectural block a layer name belongs to: the prefix before the
\* first underscore when it starts with "block", <<>> otherwise
BlockOf(name) ==
  IF Len(name) >= 8 /\ SubSeq(name, 1, 5) = W_block /\ name[8] = "_"
  THEN SubSeq(name, 1, 7)
  ELSE <<>>

Layer(name, t) == [name |-> name, trainable |-> t]


(* ------------------------------- state --------------------------------- *)
VARIABLES
  pc,          \* the cell (or fit) the notebook is at
  strategy,    \* the distribution strategy selected by the first code cell
  raised,      \* what the try block of the strategy cell ended with
  printed,     \* lines written by print
  ds_train,    \* the batched training dataset (a lazy pipeline)
  ds_test,     \* the batched evaluation dataset
  it,          \* an iterator over one of the datasets
  model,       \* model.layers: the ordered layers, each with name and trainable
  units,       \* output units of the model's final Dense layer
  n_classes,   \* the argument of the last build_model call
  optimizer,   \* the optimizer the model is compiled with
  reduce_lr,   \* the ReduceLROnPlateau callback passed to fit
  epochs,      \* the epochs argument of the running fit
  epoch,       \* epochs completed by the running fit
  history,     \* model.history.history of the running (or last) fit
  hist,        \* the notebook variable hist: <<>> or <<History.history>>
  plots,       \* figures shown by plot_hist
  reruns       \* times the last cell was run again

vars == << pc, strategy, raised, printed, ds_train, ds_test, it, model, units,
           n_classes, optimizer, reduce_lr, epochs, epoch, history, hist, plots,
           reruns >>

dataVars == << ds_train, ds_test >>
modelVars == << model, units, n_classes, optimizer >>
fitVars == << reduce_lr, epochs, epoch, history >>
strategyVars == << strategy, raised >>

(* ------------------------------ datasets ------------------------------- *)
\* from_tensor_slices over n examples, then batch(batch_size, drop_remainder)
BatchDataset(n, b, drop) == [n |-> n, batch_size |-> b, drop_remainder |-> drop]

NoDataset == BatchDataset(0, 0, FALSE)

MakeIterator(ds) == [ds |-> ds, pos |-> 0, out |-> <<>>, done |-> FALSE]

NoIterator == [ds |-> NoDataset, pos |-> 0, out |-> <<>>, done |-> TRUE]

\* (variant: the short last batch is kept, as without drop_remainder)
BatchGetNextPartial(i) ==
  LET avail == Min(i.ds.batch_size, i.ds.n - i.pos)
      elems == [k \in 1..avail |-> i.pos + k]
  IN  IF avail = 0
      THEN [i EXCEPT !.done = TRUE]
      ELSE [i EXCEPT !.pos = @ + avail, !.out = Append(@, elems)]

\* one GetNext of the batch iterator: it pulls up to batch_size elements from
\* its input; nothing pulled ends the sequence; a short batch is dropped (and
\* ends the sequence) under drop_remainder
BatchGetNext(i) ==
  LET avail == Min(i.ds.batch_size, i.ds.n - i.pos)
      elems == [k \in 1..avail |-> i.pos + k]
  IN  IF avail = 0
      THEN [i EXCEPT !.done = TRUE]
      ELSE IF i.ds.drop_remainder /\ avail < i.ds.batch_size
           THEN [i EXCEPT !.pos = @ + avail, !.done = TRUE]
           ELSE [i EXCEPT !.pos = @ + avail, !.out = Append(@, elems)]

\* the dataset preparation cell
TrainDataset(truncate_data) ==
  BatchDataset(IF truncate_data THEN TruncTrainSize ELSE TrainSize, batch_size, TRUE)

TestDataset(truncate_data) ==
  BatchDataset(IF truncate_data THEN TruncTestSize ELSE TestSize, batch_size, TRUE)

(* ------------------------------- models -------------------------------- *)
\* layers are created trainable
NewLayers(names) == [i \in 1..Len(names) |-> Layer(names[i], TRUE)]

ScratchModel == NewLayers(ScratchNames)

\* (variant: the freeze loop left out)
FreezeNone(ls) == ls

\* for l in model.layers: l.trainable = False

Freeze(ls) == [i \in 1..Len(ls) |-> [ls[i] EXCEPT !.trainable = FALSE]]

SGD(lr, momentum, nesterov) == [lr |-> lr, momentum |-> momentum, nesterov |-> nesterov]

NoOptimizer == SGD(0, 0, FALSE)

\* build_model(n_classes): the frozen backbone, the new top, compile.
\* Dense(100, ...): the units are the literal, whatever n_classes is
BuildUnits(n) == HeadUnits

build_model(n) ==
  [ layers |-> Freeze(NewLayers(BackboneNames)) \o NewLayers(HeadNames),
    units |-> BuildUnits(n),
    optimizer |-> SGD(BuildLr, Momentum, TRUE) ]

\* (variants of the loop: no layer exempt; only convolutions unfrozen; the
\* marker mistyped as "b")
UnfreezeAll(ls) == [i \in 1..Len(ls) |-> [ls[i] EXCEPT !.trainable = TRUE]]

UnfreezeConvOnly(ls) ==
  [i \in 1..Len(ls) |->
     IF Contains(ls[i].name, W_conv) THEN [ls[i] EXCEPT !.trainable = TRUE] ELSE ls[i]]

UnfreezeSkipB(ls) ==
  [i \in 1..Len(ls) |->
     IF Contains(ls[i].name, <<"b">>) THEN ls[i] ELSE [ls[i] EXCEPT !.trainable = TRUE]]

\* (variant: a new list of only the layers the loop changed)
UnfreezeOnlyChanged(ls) ==
  LET NotBn(l) == ~IsBnName(l.name)
      kept == SelectSeq(ls, NotBn)
  IN  [i \in 1..Len(kept) |-> [kept[i] EXCEPT !.trainable = TRUE]]

\* (variant: the "bn" branch freezes the layer instead of skipping it)
UnfreezeFreezeBn(ls) ==
  [i \in 1..Len(ls) |-> [ls[i] EXCEPT !.trainable = ~IsBnName(ls[i].name)]]

\* the loop of unfreeze_model
Unfreeze(ls) ==
  [i \in 1..Len(ls) |->
     IF IsBnName(ls[i].name) THEN ls[i] ELSE [ls[i] EXCEPT !.trainable = TRUE]]

Msg(tag, name) == [tag |-> tag, name |-> name]

RECURSIVE StayingUntrainable(_)
StayingUntrainable(ls) ==
  IF ls = <<>> THEN <<>>
  ELSE (IF IsBnName(Head(ls).name)
        THEN << Msg("is staying untrainable", Head(ls).name) >>
        ELSE <<>>) \o StayingUntrainable(Tail(ls))

\* (variant: recompiled at the rate build_model set)
UnfreezeSGDKeepRate == SGD(BuildLr, 0, FALSE)

\* sgd = SGD(learning_rate=0.005); model.compile(optimizer=sgd, ...)

UnfreezeSGD == SGD(UnfreezeLr, 0, FALSE)

unfreeze_model(ls) ==
  [ layers |-> Unfreeze(ls),
    printed |-> StayingUntrainable(ls),
    optimizer |-> UnfreezeSGD ]

(* ------------------------- fit and its callbacks ----------------------- *)
\* what one epoch of training and validation reports
LogChoices ==
  { [loss |-> 20000, accuracy |-> 40, val_loss |-> 20000, val_accuracy |-> 45],
    [loss |-> 10000, accuracy |-> 60, val_loss |-> 10000, val_accuracy |-> 65] }

SteadyLogs == [loss |-> 20000, accuracy |-> 40, val_loss |-> 20000, val_accuracy |-> 45]

EmptyHistory ==
  [loss |-> <<>>, accuracy |-> <<>>, val_loss |-> <<>>, val_accuracy |-> <<>>, lr |-> <<>>]

\* (variant: the last value kept instead of appended)
HistoryOverwrite(h, logs) == [k \in DOMAIN h |-> << logs[k] >>]

\* History.on_epoch_end: every key of logs gets its value appended

HistoryOnEpochEnd(h, logs) == [k \in DOMAIN h |-> Append(h[k], logs[k])]

\* ReduceLROnPlateau(monitor="val_loss", factor=0.2, patience=5, min_lr=...)
\* after on_train_begin (_reset): best = Inf, wait = 0, cooldown_counter = 0
NewCallback(min_lr) ==
  [min_lr |-> min_lr, best |-> MonitorInf, wait |-> 0, cooldown_counter |-> 0]

NoCallback == NewCallback(0)

\* monitor_op of mode "min": np.less(a, b - min_delta)
MonitorOp(a, b) == a < b - MinDelta

InCooldown(cb) == cb.cooldown_counter > 0

\* the reduced learning rate: max(old_lr * factor, min_lr)
Reduced(old_lr, min_lr) == Max((old_lr * FactorNum) \div FactorDen, min_lr)

\* (variant: wait is not reset by an improvement)
PlateauKeepWait(cb, lr, current) ==
  LET w == cb.wait + 1
  IN  IF w >= Patience /\ lr > cb.min_lr
      THEN [cb |-> [cb EXCEPT !.wait = 0], lr |-> Reduced(lr, cb.min_lr)]
      ELSE [cb |-> [cb EXCEPT !.wait = w,
                              !.best = IF MonitorOp(current, @) THEN current ELSE @],
            lr |-> lr]

\* ReduceLROnPlateau.on_epoch_end with logs[monitor] = current
PlateauOnEpochEnd(cb, lr, current) ==
  LET c1 == IF InCooldown(cb)
            THEN [cb EXCEPT !.cooldown_counter = @ - 1, !.wait = 0]
            ELSE cb
      w == c1.wait + 1
  IN  IF MonitorOp(current, c1.best)
      THEN [cb |-> [c1 EXCEPT !.best = current, !.wait = 0], lr |-> lr]
      ELSE IF InCooldown(c1)
           THEN [cb |-> c1, lr |-> lr]
           ELSE IF w >= Patience /\ lr > c1.min_lr
                THEN [cb |-> [c1 EXCEPT !.wait = 0, !.cooldown_counter = 0],
                      lr |-> Reduced(lr, c1.min_lr)]
                ELSE [cb |-> [c1 EXCEPT !.wait = w], lr |-> lr]

\* the callbacks at the end of one epoch: ReduceLROnPlateau puts the learning
\* rate of the epoch into logs and may lower it, then History records logs
EpochEnd(cb, lr, h, m) ==
  LET r == PlateauOnEpochEnd(cb, lr, m.val_loss)
      logs == [k \in DOMAIN h |-> IF k = "lr" THEN lr ELSE m[k]]
  IN  [cb |-> r.cb, lr |-> r.lr, history |-> HistoryOnEpochEnd(h, logs)]

\* k epochs that all report m
RECURSIVE RunFit(_, _, _, _, _)
RunFit(cb, lr, h, m, k) ==
  IF k = 0
  THEN [cb |-> cb, lr |-> lr, history |-> h]
  ELSE LET r == EpochEnd(cb, lr, h, m)
       IN  RunFit(r.cb, r.lr, r.history, m, k - 1)

FitPcs == {"fit_scratch", "fit_phase2", "fit_phase3"}

PlotPc(p) ==
  CASE p = "fit_scratch" -> "plot_scratch"
    [] p = "fit_phase2" -> "plot_phase2"
    [] p = "fit_phase3" -> "plot_phase3"

AfterPlotPc(p) ==
  CASE p = "plot_scratch" -> "cell_phase2"
    [] p = "plot_phase2" -> "cell_phase3"
    [] p = "plot_phase3" -> "done"

(* ------------------------------ the cells ------------------------------ *)
\* steps of the try block: 1 import Client, 2 Client(), 3 configure_tpu_version,
\* 4 TPUClusterResolver(), 5 print(workers), 6 connect_to_cluster,
\* 7 initialize_tpu_system, 8 TPUStrategy(tpu)
TrySteps == 1..8
PrintStep == 5

RunningOnTpu == Msg("Running on TPU", <<>>)
NotConnected == Msg("Not connected to a TPU runtime. Using CPU/GPU strategy", <<>>)

\* lines printed by the try block when it raises at step k (0: it does not)
TryPrints(k) == IF k = 0 \/ k > PrintStep THEN << RunningOnTpu >> ELSE <<>>

\* (variant: a bare except)
ExceptCatchesAll(kind) == TRUE

\* except ValueError

ExceptCatches(kind) == kind = "ValueError"

SelectStrategy ==
  /\ pc = "cell_strategy"
  /\ \E k \in {0} \cup TrySteps, kind \in {"ValueError", "OtherError"} :
       IF k = 0
       THEN /\ strategy' = "TPUStrategy"
            /\ raised' = "nothing"
            /\ printed' = printed \o TryPrints(k)
            /\ pc' = "cell_data"
       ELSE IF ExceptCatches(kind)
            THEN /\ strategy' = "MirroredStrategy"
                 /\ raised' = kind
                 /\ printed' = printed \o TryPrints(k) \o << NotConnected >>
                 /\ pc' = "cell_data"
            ELSE /\ strategy' = strategy
                 /\ raised' = kind
                 /\ printed' = printed \o TryPrints(k)
                 /\ pc' = "failed"
  /\ UNCHANGED << dataVars, it, modelVars, fitVars, hist, plots, reruns >>

PrepareData ==
  /\ pc = "cell_data"
  /\ \E truncate_data \in BOOLEAN :
       /\ ds_train' = TrainDataset(truncate_data)
       /\ ds_test' = TestDataset(truncate_data)
  /\ pc' = "cell_scratch"
  /\ UNCHANGED << strategyVars, printed, it, modelVars, fitVars, hist, plots, reruns >>

\* model.fit begins: a new History, the callback reset by on_train_begin
FitBegin(min_lr, e) ==
  /\ reduce_lr' = NewCallback(min_lr)
  /\ epochs' = e
  /\ epoch' = 0
  /\ history' = EmptyHistory

ScratchCellWith(E) ==
  /\ pc = "cell_scratch"
  /\ model' = ScratchModel
  /\ units' = ScratchClasses
  /\ optimizer' = SGD(ScratchLr, Momentum, TRUE)
  /\ \E e \in E : FitBegin(ScratchMinLr, e)
  /\ pc' = "fit_scratch"
  /\ UNCHANGED << strategyVars, printed, dataVars, it, n_classes, hist, plots, reruns >>

Phase2CellWith(E) ==
  /\ pc = "cell_phase2"
  /\ LET b == build_model(NUM_CLASSES)
     IN  /\ model' = b.layers
         /\ units' = b.units
         /\ optimizer' = b.optimizer
  /\ n_classes' = NUM_CLASSES
  /\ \E e \in E : FitBegin(Phase2MinLr, e)
  /\ pc' = "fit_phase2"
  /\ UNCHANGED << strategyVars, printed, dataVars, it, hist, plots, reruns >>

Phase3Body(E) ==
  /\ LET u == unfreeze_model(model)
     IN  /\ model' = u.layers
         /\ printed' = printed \o u.printed
         /\ optimizer' = u.optimizer
  /\ \E e \in E : FitBegin(Phase3MinLr, e)
  /\ pc' = "fit_phase3"
  /\ UNCHANGED << strategyVars, dataVars, it, units, n_classes, hist, plots >>

Phase3CellWith(E) ==
  /\ pc = "cell_phase3"
  /\ Phase3Body(E)
  /\ UNCHANGED reruns

\* the last cell run once more on the model it left
RerunPhase3CellWith(E) ==
  /\ pc = "done"
  /\ reruns < MaxReruns
  /\ Phase3Body(E)
  /\ reruns' = reruns + 1

\* one epoch of the running fit, reporting one of the logs in L
FitEpoch(L) ==
  /\ pc \in FitPcs
  /\ epoch < epochs
  /\ \E m \in L :
       LET r == EpochEnd(reduce_lr, optimizer.lr, history, m)
       IN  /\ reduce_lr' = r.cb
           /\ optimizer' = [optimizer EXCEPT !.lr = r.lr]
           /\ history' = r.history
  /\ epoch' = epoch + 1
  /\ UNCHANGED << pc, strategyVars, printed, dataVars, it, model, units, n_classes,
                  epochs, hist, plots, reruns >>

\* fit returns model.history, which the cell assigns to hist
FitReturn ==
  /\ pc \in FitPcs
  /\ epoch = epochs
  /\ hist' = << history >>
  /\ pc' = PlotPc(pc)
  /\ UNCHANGED << strategyVars, printed, dataVars, it, modelVars, fitVars, plots, reruns >>

\* plot_hist(hist): reads hist.history["accuracy"], ["val_accuracy"], shows a figure
PlotHist ==
  /\ pc \in {"plot_scratch", "plot_phase2", "plot_phase3"}
  /\ Len(hist) = 1
  /\ Len(hist[1].accuracy) = Len(hist[1].val_accuracy)
  /\ plots' = plots + 1
  /\ pc' = AfterPlotPc(pc)
  /\ UNCHANGED << strategyVars, printed, dataVars, it, modelVars, fitVars, hist, reruns >>

(* --------------------- the notebook, cell after cell ------------------- *)
Init ==
  /\ pc = "cell_strategy"
  /\ strategy = "none"
  /\ raised = "nothing"
  /\ printed = <<>>
  /\ ds_train = NoDataset
  /\ ds_test = NoDataset
  /\ it = NoIterator
  /\ model = <<>>
  /\ units = 0
  /\ n_classes = 0
  /\ optimizer = NoOptimizer
  /\ reduce_lr = NoCallback
  /\ epochs = 0
  /\ epoch = 0
  /\ history = EmptyHistory
  /\ hist = <<>>
  /\ plots = 0
  /\ reruns = 0

DriverEpochs(e) == 1..Min(e, MaxEpochs)

ScratchCell == ScratchCellWith(DriverEpochs(ScratchEpochs))
Phase2Cell == Phase2CellWith(DriverEpochs(Phase2Epochs))
Phase3Cell == Phase3CellWith(DriverEpochs(Phase3Epochs))
RerunPhase3Cell == RerunPhase3CellWith(DriverEpochs(Phase3Epochs))
TrainEpoch == FitEpoch(LogChoices)

Next ==
  \/ SelectStrategy
  \/ PrepareData
  \/ ScratchCell
  \/ Phase2Cell
  \/ Phase3Cell
  \/ RerunPhase3Cell
  \/ TrainEpoch
  \/ FitReturn
  \/ PlotHist

Spec == Init /\ [][Next]_vars

(* ------------------- states the notebook passes through ---------------- *)
StateIs(s) ==
  /\ pc = s.pc
  /\ strategy = s.strategy
  /\ raised = s.raised
  /\ printed = s.printed
  /\ ds_train = s.ds_train
  /\ ds_test = s.ds_test
  /\ it = s.it
  /\ model = s.model
  /\ units = s.units
  /\ n_classes = s.n_classes
  /\ optimizer = s.optimizer
  /\ reduce_lr = s.reduce_lr
  /\ epochs = s.epochs
  /\ epoch = s.epoch
  /\ history = s.history
  /\ hist = s.hist
  /\ plots = s.plots
  /\ reruns = s.reruns

InitialState ==
  [ pc |-> "cell_strategy", strategy |-> "none", raised |-> "nothing",
    printed |-> <<>>, ds_train |-> NoDataset, ds_test |-> NoDataset,
    it |-> NoIterator, model |-> <<>>, units |-> 0, n_classes |-> 0,
    optimizer |-> NoOptimizer, reduce_lr |-> NoCallback, epochs |-> 0,
    epoch |-> 0, history |-> EmptyHistory, hist |-> <<>>, plots |-> 0,
    reruns |-> 0 ]

\* no TPU runtime (TPUClusterResolver raises ValueError), the whole dataset
AfterDataCell ==
  [ InitialState EXCEPT
      !.pc = "cell_scratch", !.strategy = "MirroredStrategy",
      !.raised = "ValueError", !.printed = << NotConnected >>,
      !.ds_train = TrainDataset(FALSE), !.ds_test = TestDataset(FALSE) ]

\* the from-scratch fit about to run its first epoch
ScratchFitStart(e) ==
  [ AfterDataCell EXCEPT
      !.pc = "fit_scratch", !.model = ScratchModel, !.units = ScratchClasses,
      !.optimizer = SGD(ScratchLr, Momentum, TRUE),
      !.reduce_lr = NewCallback(ScratchMinLr), !.epochs = e ]

\* fit run to its end with steady logs, returned into hist and plotted
FitDone(s, nextpc) ==
  LET r == RunFit(s.reduce_lr, s.optimizer.lr, s.history, SteadyLogs, s.epochs)
  IN  [ s EXCEPT !.pc = nextpc, !.reduce_lr = r.cb, !.optimizer.lr = r.lr,
                 !.history = r.history, !.epoch = s.epochs,
                 !.hist = << r.history >>, !.plots = @ + 1 ]

\* the phase-2 fit about to run its first epoch
Phase2FitStart(e0, e) ==
  LET s == FitDone(ScratchFitStart(e0), "cell_phase2")
      b == build_model(NUM_CLASSES)
  IN  [ s EXCEPT !.pc = "fit_phase2", !.model = b.layers, !.units = b.units,
                 !.optimizer = b.optimizer, !.n_classes = NUM_CLASSES,
                 !.reduce_lr = NewCallback(Phase2MinLr), !.epochs = e,
                 !.epoch = 0, !.history = EmptyHistory ]

\* the phase-3 fit about to run its first epoch
Phase3FitStart(e0, e1, e) ==
  LET s == FitDone(Phase2FitStart(e0, e1), "cell_phase3")
      u == unfreeze_model(s.model)
  IN  [ s EXCEPT !.pc = "fit_phase3", !.model = u.layers,
                 !.printed = @ \o u.printed, !.optimizer = u.optimizer,
                 !.reduce_lr = NewCallback(Phase3MinLr), !.epochs = e,
                 !.epoch = 0, !.history = EmptyHistory ]

(* ------------- one fit, every sequence of validation losses ------------ *)
FitEpochs(e) == Min(e, MaxFitEpochs)

\* the fits of the earlier cells ran the driver's largest epochs
EarlierEpochs(e) == Min(e, MaxEpochs)

InitFit ==
  \/ StateIs(ScratchFitStart(FitEpochs(ScratchEpochs)))
  \/ StateIs(Phase2FitStart(EarlierEpochs(ScratchEpochs), FitEpochs(Phase2Epochs)))
  \/ StateIs(Phase3FitStart(EarlierEpochs(ScratchEpochs), EarlierEpochs(Phase2Epochs),
                            FitEpochs(Phase3Epochs)))

NextFit ==
  \/ TrainEpoch
  \/ FitReturn

SpecFit == InitFit /\ [][NextFit]_vars

(* ------- phase 2 then phase 3 at the notebook's epochs, validation ------ *)
(* ------- loss never rising                                         ------ *)
FallingLogs ==
  { m \in LogChoices :
      history.val_loss = <<>> \/ m.val_loss <= history.val_loss[Len(history.val_loss)] }

TrainEpochFalling == FitEpoch(FallingLogs)

Phase3CellLR == Phase3CellWith({Phase3Epochs})

InitLR == StateIs(Phase2FitStart(EarlierEpochs(ScratchEpochs), Phase2Epochs))

NextLR ==
  \/ TrainEpochFalling
  \/ FitReturn
  \/ PlotHist
  \/ Phase3CellLR

SpecLR == InitLR /\ [][NextLR]_vars

(* ----------------------- iterating a batched dataset ------------------- *)
ExampleSizes == {97}

BatchInputs ==
  { [train |-> TrainDataset(t), test |-> TestDataset(t)] : t \in BOOLEAN }
  \cup { [train |-> BatchDataset(n, b, TRUE), test |-> BatchDataset(n \div 2, b, TRUE)] :
           n \in 0..MaxN, b \in 1..MaxB }
  \cup { [train |-> BatchDataset(n, batch_size, TRUE),
          test |-> BatchDataset(n, batch_size, TRUE)] : n \in ExampleSizes }

InitBatch ==
  \E d \in BatchInputs, which \in {"train", "test"} :
    StateIs([ InitialState EXCEPT
                !.pc = "batch", !.ds_train = d.train, !.ds_test = d.test,
                !.it = MakeIterator(d[which]) ])

\* the consumer asks the iterator for its next batch
IterateBatch ==
  /\ pc = "batch"
  /\ ~it.done
  /\ it' = BatchGetNext(it)
  /\ UNCHANGED << pc, strategyVars, printed, dataVars, modelVars, fitVars, hist,
                  plots, reruns >>

NextBatch == IterateBatch

SpecBatch == InitBatch /\ [][NextBatch]_vars

(* ---------- build_model and unfreeze_model as functions of any --------- *)
(* ---------- class count and any trainable flags                --------- *)
ClassChoices == (1..MaxClasses) \cup {NUM_CLASSES}

\* calls of the two functions in a row; reruns counts them here
MaxCalls == 2

BuiltNames == BackboneNames \o HeadNames

\* the built architecture with the flags of at most two layers differing from
\* the rest
FlagChoices ==
  { [i \in 1..Len(BuiltNames) |-> IF i \in {a, b} THEN t ELSE ~t] :
      a \in 1..Len(BuiltNames), b \in 1..Len(BuiltNames), t \in BOOLEAN }

InitFn ==
  \E f \in FlagChoices :
    StateIs([ InitialState EXCEPT
                !.pc = "fn",
                !.model = [i \in 1..Len(BuiltNames) |-> Layer(BuiltNames[i], f[i])],
                !.units = HeadUnits, !.n_classes = NUM_CLASSES,
                !.optimizer = SGD(BuildLr, Momentum, TRUE) ])

FnPcs == {"fn", "fn_built", "fn_unfrozen"}

FnBuildModel ==
  /\ pc \in FnPcs
  /\ reruns < MaxCalls
  /\ \E n \in ClassChoices :
       LET b == build_model(n)
       IN  /\ model' = b.layers
           /\ units' = b.units
           /\ optimizer' = b.optimizer
           /\ n_classes' = n
  /\ pc' = "fn_built"
  /\ reruns' = reruns + 1
  /\ UNCHANGED << strategyVars, printed, dataVars, it, fitVars, hist, plots >>

FnUnfreezeModel ==
  /\ pc \in FnPcs
  /\ reruns < MaxCalls
  /\ LET u == unfreeze_model(model)
     IN  /\ model' = u.layers
         /\ printed' = printed \o u.printed
         /\ optimizer' = u.optimizer
  /\ pc' = "fn_unfrozen"
  /\ reruns' = reruns + 1
  /\ UNCHANGED << strategyVars, dataVars, it, units, n_classes, fitVars, hist, plots >>

NextFn ==
  \/ FnBuildModel
  \/ FnUnfreezeModel

SpecFn == InitFn /\ [][NextFn]_vars

(* ============================== claims ================================= *)
\* "bn" occurs in name, stated on the characters
HasBn(name) == \E i \in 1..(Len(name) - 1) : name[i] = "b" /\ name[i + 1] = "n"

InHead(name) == \E i \in 1..Len(HeadNames) : HeadNames[i] = name

InBackbone(name) == \E i \in 1..Len(BackboneNames) : BackboneNames[i] = name

Phase3Pcs == {"fit_phase3", "plot_phase3", "done"}

Phase2Pcs == {"fit_phase2", "plot_phase2", "cell_phase3"}

\* C1: once unfreeze_model has been applied (one or more times) to the model
\* build_model produced, every layer whose name contains "bn" is non-trainable,
\* at every step of the fine-tuning phase.
C1_BnStaysFrozen ==
  pc \in Phase3Pcs =>
    \A i \in 1..Len(model) : HasBn(model[i].name) => ~model[i].trainable

C1_Witness ==
  /\ pc = "fit_phase3"
  /\ reruns >= 1
  /\ epoch >= 1
  /\ \E i \in 1..Len(model) : HasBn(model[i].name) /\ ~model[i].trainable
  /\ \E i \in 1..Len(model) : InBackbone(model[i].name) /\ model[i].trainable

\* C2: when unfreeze_model returns, every layer whose name does not contain
\* "bn" is trainable, whatever the flags were when it was called.
C2_OthersTrainable ==
  pc = "fn_unfrozen" =>
    \A i \in 1..Len(model) : ~HasBn(model[i].name) => model[i].trainable

C2_Witness ==
  /\ pc = "fn_unfrozen"
  /\ reruns = 1
  /\ \E i \in 1..Len(model) : HasBn(model[i].name) /\ model[i].trainable
  /\ \E i \in 1..Len(model) : HasBn(model[i].name) /\ ~model[i].trainable
  /\ \A i \in 1..Len(model) : ~HasBn(model[i].name) => model[i].trainable

\* C3: from the return of build_model until unfreeze_model is called every
\* backbone layer is non-trainable and the trainable layers are exactly the
\* head layers; an epoch of the phase-2 fit changes no layer.
C3_HeadOnly ==
  /\ [](pc \in Phase2Pcs =>
          /\ Len(model) = Len(BackboneNames) + Len(HeadNames)
          /\ \A i \in 1..Len(model) :
               /\ InBackbone(model[i].name) => ~model[i].trainable
               /\ model[i].trainable <=> InHead(model[i].name))
  /\ [][pc = "fit_phase2" => model' = model]_vars

C3_Witness ==
  /\ pc = "fit_phase2"
  /\ epoch >= 1
  /\ \E i \in 1..Len(model) : model[i].name = W_pred /\ model[i].trainable
  /\ \E i \in 1..Len(model) : model[i].name = W_top \o U \o W_conv /\ ~model[i].trainable

\* C4: iterating a dataset of N examples batched with batch size B and
\* drop_remainder yields floor(N / B) batches, each of exactly B examples, the
\* last N mod B examples in none of them; 97 examples at batch size 64 give
\* one batch.
C4_FullBatchesOnly ==
  pc = "batch" =>
    /\ \A j \in 1..Len(it.out) : Len(it.out[j]) = it.ds.batch_size
    /\ it.done =>
         /\ Len(it.out) = it.ds.n \div it.ds.batch_size
         /\ \A e \in (it.ds.n - (it.ds.n % it.ds.batch_size) + 1)..it.ds.n :
              \A j \in 1..Len(it.out) :
                \A k \in 1..Len(it.out[j]) : it.out[j][k] # e
         /\ (it.ds.n \in ExampleSizes /\ it.ds.batch_size = batch_size)
              => Len(it.out) = 1

C4_Witness ==
  /\ pc = "batch"
  /\ it.done
  /\ it.ds.n \in ExampleSizes
  /\ it.ds.batch_size = batch_size
  /\ Len(it.out) = 1
  /\ it.pos = it.ds.n

\* C5 (as claimed): the final layer of the model build_model(n_classes)
\* returns has exactly n_classes output units.
C5_UnitsAreNClasses == pc = "fn_built" => units = n_classes

\* C6: a ValueError from any step of the TPU setup selects the mirrored
\* strategy and the run proceeds; no exception selects the TPU strategy after
\* printing the workers; any other exception leaves no strategy, stops the
\* run, and no model is built or trained; a selected strategy never changes.
C6_StrategySelection ==
  /\ [](/\ raised = "ValueError" => (strategy = "MirroredStrategy" /\ pc # "failed")
        /\ (raised = "nothing" /\ pc # "cell_strategy") =>
             (strategy = "TPUStrategy" /\ printed[1] = RunningOnTpu)
        /\ raised = "OtherError" =>
             /\ pc = "failed"
             /\ strategy = "none"
             /\ model = <<>>
             /\ hist = <<>>
             /\ epoch = 0
        /\ pc \notin {"cell_strategy", "failed"} =>
             strategy \in {"TPUStrategy", "MirroredStrategy"})
  /\ [][/\ strategy # "none" => strategy' = strategy
        /\ pc # "failed"]_vars

C6_Witness ==
  /\ pc = "done"
  /\ raised = "ValueError"
  /\ strategy = "MirroredStrategy"
  /\ printed[1] = RunningOnTpu
  /\ printed[2] = NotConnected

\* C7 (as claimed): the learning rate in effect at every epoch of phase 2 is
\* strictly greater than the learning rate in effect at every epoch of phase 3.
C7_Phase2AlwaysHigher ==
  (pc = "fit_phase3" /\ Len(hist) = 1) =>
    \A i \in 1..Len(hist[1].lr) :
      /\ hist[1].lr[i] > optimizer.lr
      /\ \A j \in 1..Len(history.lr) : hist[1].lr[i] > history.lr[j]

\* C7 (amended): the learning rate phase 2 starts from, in effect at its first
\* epoch, is strictly greater than the learning rate in effect at every epoch
\* of phase 3; later epochs of phase 2 may run below phase 3's rate.
C7_Phase2StartsHigher ==
  /\ (pc = "fit_phase2" /\ epoch >= 1) => history.lr[1] = BuildLr
  /\ (pc = "fit_phase3" /\ Len(hist) = 1) =>
       /\ hist[1].lr[1] = BuildLr
       /\ hist[1].lr[1] > optimizer.lr
       /\ \A j \in 1..Len(history.lr) : hist[1].lr[1] > history.lr[j]

C7_Witness ==
  /\ pc = "fit_phase3"
  /\ epoch = epochs
  /\ optimizer.lr < UnfreezeLr
  /\ history.lr[1] = UnfreezeLr
  /\ \E i \in 1..Len(hist[1].lr) : hist[1].lr[i] < UnfreezeLr

\* epoch e improved the validation loss: it fell more than min_delta below
\* every earlier epoch's
Improved(vl, e) == \A k \in 1..(e - 1) : vl[e] < vl[k] - MinDelta

\* C8: within one fit the learning rate never increases; it is lowered only at
\* an epoch that ends a run of 5 consecutive epochs without improvement of the
\* validation loss; a lowering sets it to max(0.2 * previous, min_lr); it is
\* never below min_lr.
C8_PlateauDecay ==
  /\ [](pc \in FitPcs => optimizer.lr >= reduce_lr.min_lr)
  /\ [][(pc \in FitPcs /\ epoch' = epoch + 1) =>
          /\ optimizer'.lr <= optimizer.lr
          /\ optimizer'.lr < optimizer.lr =>
               /\ epoch' >= Patience
               /\ \A e \in (epoch' - Patience + 1)..epoch' :
                    ~Improved(history'.val_loss, e)
               /\ 10 * optimizer'.lr >= 2 * optimizer.lr
               /\ optimizer'.lr >= reduce_lr.min_lr
               /\ optimizer'.lr \in {(2 * optimizer.lr) \div 10, reduce_lr.min_lr}]_vars

C8_Witness ==
  /\ pc = "fit_scratch"
  /\ optimizer.lr = ScratchMinLr
  /\ reduce_lr.wait = 0
  /\ epoch >= 3 * Patience
  /\ history.lr[epoch] > ScratchMinLr
  /\ 2 * history.lr[epoch] < 10 * ScratchMinLr

IsPrefix(a, b) == Len(a) <= Len(b) /\ SubSeq(b, 1, Len(a)) = a

MetricKeys == {"accuracy", "val_accuracy", "loss", "val_loss"}

PlotPcs == {"plot_scratch", "plot_phase2", "plot_phase3"}

\* C10: a fit starts from an empty history; each completed epoch appends one
\* value to each of accuracy, val_accuracy, loss and val_loss and changes no
\* earlier entry; a fit of E epochs returns E entries per metric; the returned
\* history changes only by being replaced at the next fit's return, and
\* plot_hist changes neither history.
C10_HistoryAppendOnly ==
  /\ [](/\ pc \in FitPcs => \A k \in MetricKeys : Len(history[k]) = epoch
        /\ pc \in PlotPcs =>
             /\ hist = << history >>
             /\ \A k \in MetricKeys : Len(hist[1][k]) = epochs)
  /\ [][/\ (pc \in FitPcs /\ pc' = pc) =>
             \A k \in MetricKeys :
               /\ Len(history'[k]) = Len(history[k]) + 1
               /\ IsPrefix(history[k], history'[k])
        /\ (pc \notin FitPcs /\ pc' \in FitPcs) =>
             /\ \A k \in MetricKeys : history'[k] = <<>>
             /\ hist' = hist
        /\ pc \in PlotPcs => (hist' = hist /\ history' = history)
        /\ hist' # hist =>
             (pc \in FitPcs /\ epoch = epochs /\ hist' = << history >>)]_vars

C10_Witness ==
  /\ pc = "plot_phase3"
  /\ plots = 2
  /\ epochs >= 2
  /\ hist = << history >>
  /\ \A k \in MetricKeys : Len(hist[1][k]) = epochs
  /\ hist[1].val_loss[1] # hist[1].val_loss[2]

Names(ls) == [i \in 1..Len(ls) |-> ls[i].name]

\* C11: the phases run in order over one model: the phase-2 fit starts on the
\* model build_model returned; unfreeze_model is called only when the previous
\* fit has completed all its epochs and returned; the phase-3 fit starts at
\* epoch 0 on the recompiled model; unfreeze_model keeps the layers, their
\* order and the head, and the model changes at no other step of phases 2, 3.
C11_PhaseOrder ==
  /\ [](pc \in (Phase2Pcs \cup Phase3Pcs) => Names(model) = BackboneNames \o HeadNames)
  /\ [][/\ (pc' = "fit_phase2" /\ pc # "fit_phase2") =>
             /\ pc = "cell_phase2"
             /\ model' = build_model(NUM_CLASSES).layers
             /\ optimizer'.lr = BuildLr
             /\ epoch' = 0
        /\ (pc' = "fit_phase3" /\ pc # "fit_phase3") =>
             /\ pc \in {"cell_phase3", "done"}
             /\ epoch = epochs
             /\ hist = << history >>
             /\ \A k \in DOMAIN history : Len(history[k]) = epochs
             /\ Names(model') = Names(model)
             /\ units' = units
             /\ optimizer' = SGD(UnfreezeLr, 0, FALSE)
             /\ epoch' = 0
             /\ history' = EmptyHistory
        /\ (pc \in (Phase2Pcs \cup Phase3Pcs) /\ model' # model) =>
             (pc \in {"cell_phase3", "done"} /\ pc' = "fit_phase3")
        /\ pc = "fit_phase2" => pc' \in {"fit_phase2", "plot_phase2"}
        /\ pc = "plot_phase2" => pc' = "cell_phase3"]_vars

C11_Witness ==
  /\ pc = "fit_phase3"
  /\ reruns = 0
  /\ epoch = 1
  /\ Len(hist) = 1
  /\ Len(hist[1].loss) = MaxEpochs
  /\ optimizer.lr = UnfreezeLr
  /\ Names(model) = BackboneNames \o HeadNames
  /\ \E i \in 1..Len(model) : InBackbone(model[i].name) /\ model[i].trainable

\* C12: unfreeze_model never turns a trainable flag from true to false, leaves
\* the flag of every layer whose name contains "bn" as it was on entry, and a
\* second application changes no flag the first one set.
C12_UnfreezeFrame ==
  /\ [](Unfreeze(Unfreeze(model)) = Unfreeze(model))
  /\ [][pc' = "fn_unfrozen" =>
          /\ Names(model') = Names(model)
          /\ \A i \in 1..Len(model) :
               /\ model[i].trainable => model'[i].trainable
               /\ HasBn(model[i].name) => model'[i].trainable = model[i].trainable
          /\ pc = "fn_unfrozen" => model' = model]_vars

C12_Witness ==
  /\ pc = "fn_unfrozen"
  /\ reruns = 2
  /\ \E i \in 1..Len(model) :
       InBackbone(model[i].name) /\ HasBn(model[i].name) /\ model[i].trainable
  /\ \E i \in 1..Len(model) : HasBn(model[i].name) /\ ~model[i].trainable
  /\ \A i \in 1..Len(model) : ~HasBn(model[i].name) => model[i].trainable

====
